---- MODULE Spec2Model ----
(***************************************************************************)
(* A model of redisbus: the Redis-side lists, presence records and pub/sub *)
(* channel, the Queue / Monitor / Subscription wrappers (rb_queue.py,      *)
(* worker.py), the Client request and reply primitives with perform_rpc    *)
(* (client.py), and the Worker loop with process_message (worker.py).      *)
(*                                                                         *)
(* Strings that the code joins and splits on ':' are tuples of segments:   *)
(* the key "direct:10.0.0.1:100:aa" is <<"direct","10.0.0.1","100","aa">>. *)
(* A list element is the text Redis stores: JsonDumps(doc) for a document  *)
(* written by the code, Garbage for text that json.loads rejects.          *)
(***************************************************************************)
EXTENDS Integers, Sequences, FiniteSets, TLC

\* ---------------------------------------------------------------- bounds
\* Length of the longest lazy sequence whose time to live is computed.
MaxLongStream == 31

\* Envelopes a steady producer keeps ahead of the worker on its direct key.
MaxBacklog == 3

\* Requests issued in a run of the routing specification.
MaxRequests == 1
\* Requests issued in a run of the single-worker specification.
MaxCalls == 1
\* Requests issued in a run of the intake specification.
MaxPending == 2
\* Elements the key of the queue specification holds at most.
MaxQueued == 3
\* Requests issued in a run of the stop specification.
MaxStops == 1
\* Requests issued in a run of the sequence specification.
MaxSequence == 2
\* push_constrained calls in a run of the log specification.
MaxPushes == 3
\* Elements the log key holds when a run of the log specification begins.
MaxPrior == 3
\* Largest number of elements a push_constrained call asks to keep.
MaxKeep == 2
\* Elements that are not JSON, written by a foreign producer in a run.
MaxGarbage == 1
\* Longest lazy sequence a handler replies with.
MaxStream == 1

\* ----------------------------------------------------- program constants
\* Client.command_ttl
command_ttl == 10
\* The least time to live Client.reply gives a finished stream.
StreamTtlFloor == 300
\* LogHandler.LOG_TTL
LOG_TTL == 86400

\* Subscription.get_message: max_retry.
max_retry == 3

\* ------------------------------------------------------- the deployment
Site == "test"
WorkerType == "echo"
W1 == <<"10.0.0.1", "100", "aa">>
W2 == <<"10.0.0.2", "200", "bb">>
\* Worker ids, <ipv4>:<pid>:<uid-tail> (generate_worker_id).
Workers == {W1, W2}
\* src_id of a caller that is no worker: the empty string.
NoWorker == <<>>
\* The connections that write to one log key.
Writers == {"a", "b"}

VARIABLES
    lists,      \* Redis lists: key -> sequence of stored texts (absent when empty)
    ttl,        \* Redis: key -> the seconds its last EXPIRE set (absent: none)
    strs,       \* Redis string keys that exist (the presence values)
    hash,       \* the Redis hash "workers": field -> worker id
    sub,        \* per worker: messages pending on its pub/sub connection
    monitor,    \* per worker: Monitor.active, its thread, Monitor.output_queue
    wpc,        \* per worker: position of the main thread in Worker.loop
    active,     \* per worker: Worker.active
    maintained, \* per worker: loop_inner has run its maintenance block
    ending,     \* per worker: why loop() left its while loop
    dlog,       \* per worker: the envelopes process_message has dispatched
    rpc,        \* per correlation id: the perform_rpc call that owns it
    sent,       \* history: request envelopes in the order they were written
    pushed,     \* history: per correlation id, reply envelopes in push order
    issued,     \* number of requests issued
    garbage,    \* number of elements written that are no request envelopes
    pipe,       \* per log writer: the commands of its pipeline not yet executed
    logpushed,  \* history: the elements pushed to the log key, in push order
    queue,      \* a Queue object of a caller: its active flag, how its last call ended
    teardown,   \* per worker: what the clauses of loop() have run since it was entered
    conn        \* per worker: the reconnects Subscription.get_message has made

vars == <<lists, ttl, strs, hash, sub, monitor, wpc, active, maintained, ending, dlog,
          rpc, sent, pushed, issued, garbage, pipe, logpushed, queue, teardown, conn>>

\* The state of loop()'s clauses and of the pub/sub connection.
faultvars == <<teardown, conn>>

\* The state of the log writers.
logvars == <<pipe, logpushed>>

\* ------------------------------------------------------------------ JSON
\* json.dumps: the text stored for a document.
JsonDumps(doc) == [json |-> doc]

\* A text json.loads raises on.
Garbage == [text |-> "{not json"]

\* json.loads succeeds on exactly the texts json.dumps wrote.
IsJson(raw) == "json" \in DOMAIN raw

\* json.loads of a text it accepts.
JsonLoads(raw) == raw.json

\* JSON null.
Null == [null |-> TRUE]

\* ----------------------------------------------------------- Redis lists
\* LRANGE key 0 -1: a key that does not exist is the empty list.
LGet(l, key) == IF key \in DOMAIN l THEN l[key] ELSE <<>>

\* Redis deletes a list key when its last element is removed.
LSet(l, key, s) ==
    IF s = <<>>
    THEN [k \in DOMAIN l \ {key} |-> l[k]]
    ELSE [k \in DOMAIN l \cup {key} |-> IF k = key THEN s ELSE l[k]]

\* RPUSH key text.
RPush(l, key, raw) == LSet(l, key, Append(LGet(l, key), raw))

\* LTRIM on a list s: start and stop count from 0, negative ones from the
\* end of the list; the elements start..stop stay.
LTrimmed(s, start, stop) ==
    LET n == Len(s)
        from == IF start < 0 THEN (IF n + start < 0 THEN 0 ELSE n + start) ELSE start
        to == IF stop < 0 THEN n + stop ELSE (IF stop >= n THEN n - 1 ELSE stop)
    IN  IF from > to \/ from >= n THEN <<>> ELSE SubSeq(s, from + 1, to + 1)

\* EXPIRE key seconds: no effect on a key that does not exist.
Expire(t, l, key, seconds) ==
    IF key \in DOMAIN l
    THEN [k \in DOMAIN t \cup {key} |-> IF k = key THEN seconds ELSE t[k]]
    ELSE t

\* A key that was deleted has no time to live left to it.
Living(t, l) == [k \in DOMAIN t \cap DOMAIN l |-> t[k]]

\* Queue.push: rpush of the JSON text.
QueuePush(l, name, pyobj) == RPush(l, name, JsonDumps(pyobj))

\* Queue.pop taking the last element, as rpop / brpop would.
QueuePopRight(l, name) ==
    LET s == LGet(l, name)
        raw == s[Len(s)]
        rest == SubSeq(s, 1, Len(s) - 1)
    IN  IF IsJson(raw)
        THEN [lists |-> LSet(l, name, rest), obj |-> JsonLoads(raw)]
        ELSE [lists |-> LSet(l, name, rest)]

\* Queue.pop on a non-empty list: lpop / blpop take the head; the decoded
\* document is returned, or None (no "obj" field) when decoding fails.
QueuePop(l, name) ==
    LET s == LGet(l, name)
        raw == Head(s)
    IN  IF IsJson(raw)
        THEN [lists |-> LSet(l, name, Tail(s)), obj |-> JsonLoads(raw)]
        ELSE [lists |-> LSet(l, name, Tail(s))]

\* BRPOP names: the first key, in the order given, that holds a list.
BRPopKey(l, names) ==
    LET hit == {n \in 1..Len(names) : LGet(l, names[n]) # <<>>}
    IN  names[CHOOSE n \in hit : \A m \in hit : n <= m]

\* BRPOP returns at once when one of the keys holds a list.
BRPopReady(l, names) == \E n \in 1..Len(names) : LGet(l, names[n]) # <<>>

\* A pop that reads the last element and leaves it on the list.
BRPopLeaving(l, names) ==
    LET key == BRPopKey(l, names)
        s == LGet(l, key)
    IN  [key |-> key, raw |-> s[Len(s)], lists |-> l]

\* BRPOP names: the LAST element of that key is removed and returned.
BRPop(l, names) ==
    LET key == BRPopKey(l, names)
        s == LGet(l, key)
    IN  [key |-> key, raw |-> s[Len(s)],
         lists |-> LSet(l, key, SubSeq(s, 1, Len(s) - 1))]

\* ------------------------------------------------------------------ keys
DirectKey(id) == <<"direct">> \o id

GroupKey(site, worker_type) == <<"group", site, worker_type>>

\* One reply key for every correlation.
ReplyKeyShared(cid) == <<"reply">>

\* 'reply:' + correlation
ReplyKey(cid) == <<"reply">> \o cid

\* Worker.broadcast_rpc_key: "rpc:worker:<site>".
BroadcastKey(site) == <<"rpc", "worker", site>>

\* The key update_worker_info_key writes: "worker:<site>:<type>:<id>".
InfoKeyWritten(site, type_name, id) == <<"worker", site, type_name>> \o id

\* remove_worker_info_key formatting its key without the worker type.
InfoKeyWithoutType(site, type_name, id) == <<"worker", site>> \o id

\* The key remove_worker_info_key removes.
InfoKeyRemoved(site, type_name, id) == <<"worker", site, type_name>> \o id

\* Client.multicast cutting the key one segment early: split(':')[2:].
MulticastTargetWithType(key) == <<"direct">> \o SubSeq(key, 3, Len(key))

\* "direct:" + ':'.join(key.split(':')[3:])  (Client.multicast)
MulticastTarget(key) == <<"direct">> \o SubSeq(key, 4, Len(key))

\* Redis glob matching, a segment at a time: "*" stands for any non-empty
\* run of segments, every other segment for itself.
RECURSIVE GlobMatch(_, _)
GlobMatch(pat, key) ==
    IF pat = <<>> THEN key = <<>>
    ELSE IF Head(pat) = "*"
         THEN \E n \in 1..Len(key) : GlobMatch(Tail(pat), SubSeq(key, n + 1, Len(key)))
         ELSE /\ key # <<>>
              /\ Head(key) = Head(pat)
              /\ GlobMatch(Tail(pat), Tail(key))

\* scan_iter(pattern): every existing key, of any type, the pattern matches.
ScanIter(l, s, pattern) ==
    {key \in DOMAIN l \cup s \cup {<<"workers">>} : GlobMatch(pattern, key)}

\* ------------------------------------------------------------- envelopes
\* The request envelope Client.call and Client.broadcast write.
Request(command, data, cid, src_id) ==
    [x |-> command, d |-> data, c |-> cid, i |-> src_id]

\* A single-shot reply envelope: no z.
Reply(cid, data, src_id) == [c |-> cid, d |-> data, i |-> src_id]

\* An envelope of a stream: z = count, or -1 for the terminator.
StreamReply(cid, data, src_id, count) ==
    [c |-> cid, d |-> data, i |-> src_id, z |-> count]

\* {'success': True, 'msg': msg}; a message is the tuple of its parts.
Success(msg) == [success |-> TRUE, msg |-> msg]

\* {'success': False, 'msg': msg}
Failure(msg) == [success |-> FALSE, msg |-> msg]

\* A generator: the elements it yields, and whether it then raises instead
\* of ending.
Generator(elems, raises) == [gen |-> elems, raises |-> raises]

\* isinstance(data, types.GeneratorType)
IsGenerator(data) == "gen" \in DOMAIN data

HasZ(env) == "z" \in DOMAIN env

\* A terminal reply: single-shot (no z) or the stream terminator.
IsTerminal(env) == ~HasZ(env) \/ env.z = -1

\* ---------------------------------------------------------- Client.reply
\* Client.reply numbering the elements of a stream from 1.
ClientReplyCountingFromOne(src_id, correlation, data) ==
    IF IsGenerator(data)
    THEN [k \in 1..Len(data.gen) |->
              StreamReply(correlation, data.gen[k], src_id, k)]
         \o IF data.raises
            THEN <<Reply(correlation,
                         Failure(<<"An exception occurred while replying to correlation">>
                                 \o correlation),
                         src_id)>>
            ELSE <<StreamReply(correlation, Null, src_id, -1)>>
    ELSE <<Reply(correlation, data, src_id)>>

\* The envelopes Client.reply pushes to reply:<correlation>, in push order.
ClientReply(src_id, correlation, data) ==
    IF IsGenerator(data)
    THEN [k \in 1..Len(data.gen) |->
              StreamReply(correlation, data.gen[k], src_id, k - 1)]
         \o IF data.raises
            THEN <<Reply(correlation,
                         Failure(<<"An exception occurred while replying to correlation">>
                                 \o correlation),
                         src_id)>>
            ELSE <<StreamReply(correlation, Null, src_id, -1)>>
    ELSE <<Reply(correlation, data, src_id)>>

Max(a, b) == IF a >= b THEN a ELSE b

\* Client.reply setting command_ttl whatever it pushed.
ReplyTtlFlat(data) == command_ttl

\* The time to live Client.reply sets on reply:<correlation> before it returns.
ReplyTtl(data) ==
    IF IsGenerator(data) /\ ~data.raises
    THEN Max(command_ttl * Len(data.gen), StreamTtlFloor)
    ELSE command_ttl

\* --------------------------------------------------------------- handlers
\* What one run of a cmd_ handler does: the payloads it hands to
\* context.reply / reply_success / reply_failure, in order; the exception it
\* ends with, if any; whether it cleared Worker.active; whether it called
\* update_worker_info_key.
Outcome(calls, raises, stop, info) ==
    [calls |-> calls, raises |-> raises, stop |-> stop, info |-> info]

OK == <<"OK">>

cmd_ping(data) == {Outcome(<<data>>, "none", FALSE, FALSE)}

\* cmd_stop replying without clearing Worker.active.
cmd_stop_staying(data) == {Outcome(<<Success(OK)>>, "none", FALSE, FALSE)}

cmd_stop(data) == {Outcome(<<Success(OK)>>, "none", TRUE, FALSE)}

cmd_update_spawner(data) == {Outcome(<<Success(OK)>>, "none", FALSE, TRUE)}

\* allow_downloads is False unless a subclass sets it.
cmd_download(data) ==
    {Outcome(<<Failure(<<"Downloads disabled for this worker">>)>>, "none", FALSE, FALSE)}

\* The lazy sequences a handler may reply with.
Streams ==
    {Generator([k \in 1..n |-> [elem |-> k]], r) : n \in 0..MaxStream, r \in BOOLEAN}

\* A handler of a Worker subclass: it may return without replying, raise
\* before or after replying, or reply with a lazy sequence.
cmd_work(data) ==
    {Outcome(<<>>, "none", FALSE, FALSE),
     Outcome(<<>>, "Exception", FALSE, FALSE),
     Outcome(<<>>, "AttributeError", FALSE, FALSE),
     Outcome(<<data>>, "Exception", FALSE, FALSE)}
    \cup {Outcome(<<g>>, "none", FALSE, FALSE) : g \in Streams}

\* The cmd_ methods getattr finds on the worker.
HandlerNames == {"ping", "stop", "update_spawner", "download", "work"}

\* getattr(self, 'cmd_' + command_name)(context): the runs the handler can take.
Handler(command_name, data) ==
    CASE command_name = "ping" -> cmd_ping(data)
      [] command_name = "stop" -> cmd_stop(data)
      [] command_name = "update_spawner" -> cmd_update_spawner(data)
      [] command_name = "download" -> cmd_download(data)
      [] command_name = "work" -> cmd_work(data)

\* getattr raises AttributeError before any handler runs.
NoHandler == Outcome(<<>>, "AttributeError", FALSE, FALSE)

Runs(message) ==
    IF message.x \in HandlerNames THEN Handler(message.x, message.d) ELSE {NoHandler}

\* The unknown-command message naming the command instead of the function.
UnknownCommandBare(command_name) ==
    <<"Unknown command function", command_name>>

\* "Unknown command function '<func_name>' ...", func_name = 'cmd_' + command_name.
UnknownCommand(command_name) ==
    <<"Unknown command function", "cmd_", command_name>>

\* "An exception occurred while executing command function '<func_name>' ..."
HandlerException(command_name) ==
    <<"An exception occurred while executing command function", "cmd_", command_name>>

\* The except clauses of process_message: the status message of a failed run.
StatusMsg(command_name, raises) ==
    IF raises = "AttributeError"
    THEN UnknownCommand(command_name) ELSE HandlerException(command_name)

\* process_message replying to every failure, whether or not the handler had
\* replied before it raised.
AutoReplyOnEveryFailure(success, did_reply, status_msg) ==
    IF success
    THEN (IF did_reply THEN <<>> ELSE <<Success(OK)>>)
    ELSE <<Failure(status_msg)>>

\* process_message replying OK after every handler that returns.
AutoReplyOnEverySuccess(success, did_reply, status_msg) ==
    IF success
    THEN <<Success(OK)>>
    ELSE (IF did_reply THEN <<>> ELSE <<Failure(status_msg)>>)

\* The tail of process_message: the payload it replies with itself, if any.
AutoReply(success, did_reply, status_msg) ==
    IF did_reply THEN <<>>
    ELSE IF success THEN <<Success(OK)>> ELSE <<Failure(status_msg)>>

RECURSIVE Replies(_, _, _)
Replies(src_id, correlation, calls) ==
    IF calls = <<>> THEN <<>>
    ELSE ClientReply(src_id, correlation, Head(calls))
         \o Replies(src_id, correlation, Tail(calls))

\* process_message for one run of the handler: every envelope it pushes to
\* reply:<c>, in order, the time to live the last Client.reply leaves on that
\* key, and its return value.
ProcessMessage(id, message, run) ==
    LET success == run.raises = "none"
        did_reply == run.calls # <<>>
        auto == AutoReply(success, did_reply, StatusMsg(message.x, run.raises))
        calls == run.calls \o auto
    IN  [envs |-> Replies(id, message.c, calls),
         ttl |-> ReplyTtl(calls[Len(calls)]),
         success |-> success]

\* Queue.__init__: active is True; no pop has been made.
NewQueue == [active |-> TRUE, returned |-> <<>>, raised |-> FALSE, failed |-> FALSE]

\* ------------------------------------------------------------ the workers
EmptyMap == [k \in {} |-> <<>>]

\* The notification a pub/sub connection receives for its own SUBSCRIBE.
SubscribeAck == [type |-> "subscribe"]

\* A published message as pubsub.get_message returns it.
PubMessage(channel, data) == [type |-> "message", channel |-> channel, data |-> data]

\* loop() has been entered: neither clause of its finally has run, and it has
\* raised nothing to its caller.
NewTeardown == [removals |-> 0, shutdowns |-> 0, raised |-> FALSE]

\* A Subscription just built: get_message was not called.
NewConn == [reconnects |-> 0, reads |-> 0, result |-> "idle"]

\* The while loop of loop() is left: the finally clause begins and calls
\* remove_worker_info_key.
FinallyRemoves(t) == [t EXCEPT !.removals = @ + 1]

\* An interrupt ends loop() as a return as well.
ReraisedAlways(why) == why \in {"raise", "interrupt"}

\* What loop() does with what ended its try block: the KeyboardInterrupt
\* clause prints and goes on, the Exception clause logs and raises again.
Reraised(why) == why = "raise"

\* The finally clause goes on with worker_shutdown; then loop() returns or
\* raises again.
FinallyShutsDown(t, why) ==
    [t EXCEPT !.shutdowns = @ + 1, !.raised = Reraised(why)]

\* The queues Worker.connect registers with its Monitor, in that order.
QueueNames(id) == <<DirectKey(id), GroupKey(Site, WorkerType)>>

\* The state once Worker.__init__ has returned in the processes of the
\* workers in `started`: connect() has started the Monitor thread and
\* subscribed; loop() has called worker_startup and is about to enter its
\* while loop.  The other workers do not run.
Boot(started) ==
    /\ strs = {}
    /\ hash = EmptyMap
    /\ sub = [w \in Workers |-> IF w \in started THEN <<SubscribeAck>> ELSE <<>>]
    /\ monitor = [w \in Workers |->
                    [active |-> TRUE, alive |-> w \in started, output_queue |-> <<>>]]
    /\ wpc = [w \in Workers |-> IF w \in started THEN "direct" ELSE "exited"]
    /\ active = [w \in Workers |-> TRUE]
    /\ maintained = [w \in Workers |-> FALSE]
    /\ ending = [w \in Workers |-> "none"]
    /\ dlog = [w \in Workers |-> <<>>]
    /\ rpc = EmptyMap
    /\ sent = <<>>
    /\ pushed = EmptyMap
    /\ issued = 0
    /\ garbage = 0
    /\ pipe = [a \in Writers |-> <<>>]
    /\ queue = NewQueue
    /\ teardown = [w \in Workers |-> NewTeardown]
    /\ conn = [w \in Workers |-> NewConn]

\* Redis holds nothing.
Flushed ==
    /\ lists = EmptyMap
    /\ ttl = EmptyMap
    /\ logpushed = <<>>

Init == Flushed /\ Boot(Workers)

\* The process of worker w runs: its daemon thread and its subscription exist.
Running(w) == wpc[w] # "exited"

\* Monitor.thread, one turn of its loop that finds an element: brpop over the
\* registered queues, json.loads, put on output_queue.  json.loads raising
\* ends the thread.
MonitorThread(w) ==
    /\ Running(w)
    /\ monitor[w].active /\ monitor[w].alive
    /\ BRPopReady(lists, QueueNames(w))
    /\ LET got == BRPop(lists, QueueNames(w))
       IN  /\ lists' = got.lists
           /\ ttl' = Living(ttl, got.lists)
           /\ monitor' = [monitor EXCEPT ![w] =
                  IF IsJson(got.raw)
                  THEN [@ EXCEPT !.output_queue = Append(@, JsonLoads(got.raw))]
                  ELSE [@ EXCEPT !.alive = FALSE]]
    /\ UNCHANGED <<strs, hash, sub, wpc, active, maintained, ending, dlog, rpc, sent,
                   pushed, issued, garbage, logvars, queue, faultvars>>

\* RPUSH of several texts.
RECURSIVE QueuePushAll(_, _, _)
QueuePushAll(l, name, pyobjs) ==
    IF pyobjs = <<>> THEN l
    ELSE QueuePushAll(QueuePush(l, name, Head(pyobjs)), name, Tail(pyobjs))

\* update_worker_info_key: HSET workers <key> <id>; SET <key> <info> EX 13.
UpdateHash(h, id) ==
    LET key == InfoKeyWritten(Site, WorkerType, id)
    IN  [k \in DOMAIN h \cup {key} |-> IF k = key THEN id ELSE h[k]]

UpdateStrs(s, id) == s \cup {InfoKeyWritten(Site, WorkerType, id)}

\* remove_worker_info_key: HDEL workers <key>; DEL <key>.
RemoveHash(h, id) ==
    [k \in DOMAIN h \ {InfoKeyRemoved(Site, WorkerType, id)} |-> h[k]]

RemoveStrs(s, id) == s \ {InfoKeyRemoved(Site, WorkerType, id)}

\* The position of the main thread after a dispatch it made at position pc:
\* a handler that clears Worker.active does so after its reply was pushed
\* (cmd_stop), as a step of its own.
AfterDispatch(pc, run) ==
    IF run.stop THEN (IF pc = "direct" THEN "direct_stop" ELSE "broadcast_stop") ELSE pc

\* process_message(message) on worker w, the handler taking run `run`; l is
\* the state of the lists when it is called.
Dispatch(w, message, run, via, l) ==
    LET done == ProcessMessage(w, message, run)
        after == QueuePushAll(l, ReplyKey(message.c), done.envs)
    IN  /\ lists' = after
        /\ ttl' = Expire(ttl, after, ReplyKey(message.c), done.ttl)
        /\ pushed' = LSet(pushed, message.c, LGet(pushed, message.c) \o done.envs)
        /\ dlog' = [dlog EXCEPT ![w] =
               Append(@, [c |-> message.c, x |-> message.x, via |-> via, run |-> run])]
        /\ hash' = IF run.info THEN UpdateHash(hash, w) ELSE hash
        /\ strs' = IF run.info THEN UpdateStrs(strs, w) ELSE strs

\* The envelope has the fields process_message cannot do without: with no x,
\* 'cmd_' + command_name raises TypeError before the try block; with no c,
\* context.reply fails its assert, and the reply_failure or reply_success that
\* follows raises TypeError in Client.reply ('reply:' + correlation).
Complete(message) == {"x", "c"} \subseteq DOMAIN message

\* read_direct_messages, one turn: Monitor.pop returns an envelope, which is
\* dispatched.
ReadDirectMessage(w) ==
    /\ wpc[w] = "direct"
    /\ monitor[w].output_queue # <<>>
    /\ Complete(Head(monitor[w].output_queue))
    /\ LET obj == Head(monitor[w].output_queue)
       IN  \E run \in Runs(obj) :
               /\ Dispatch(w, obj, run, "monitor", lists)
               /\ wpc' = [wpc EXCEPT ![w] = AfterDispatch("direct", run)]
    /\ monitor' = [monitor EXCEPT ![w].output_queue = Tail(@)]
    /\ UNCHANGED <<sub, active, maintained, ending, rpc, sent, issued, garbage, logvars, queue, faultvars>>

\* cmd_stop after context.reply_success() returned: self.active = False; the
\* handler returns and the read loop it was called from goes on.
CmdStopReturns(w) ==
    /\ wpc[w] \in {"direct_stop", "broadcast_stop"}
    /\ active' = [active EXCEPT ![w] = FALSE]
    /\ wpc' = [wpc EXCEPT ![w] = IF wpc[w] = "direct_stop" THEN "direct" ELSE "broadcast"]
    /\ UNCHANGED <<lists, ttl, strs, hash, sub, monitor, maintained, ending, dlog, rpc,
                   sent, pushed, issued, garbage, logvars, queue, faultvars>>

\* Monitor.pop returned None: read_direct_messages is over.
Drained(w) ==
    \/ wpc[w] = "broadcast"
    \/ wpc[w] = "direct" /\ monitor[w].output_queue = <<>>

\* read_broadcast_messages, one turn: get_message returns a message.  The
\* subscribe notification is skipped; a message of the worker's channel is
\* decoded and dispatched; json.loads raising is logged and raised again,
\* which ends loop() through its except and finally clauses, where
\* remove_worker_info_key comes first.
ReadBroadcastMessage(w) ==
    /\ Drained(w)
    /\ sub[w] # <<>>
    /\ LET message == Head(sub[w])
           decodes == /\ message.type = "message"
                      /\ message.channel = BroadcastKey(Site)
                      /\ IsJson(message.data)
           fails == /\ message.type = "message"
                    /\ message.channel = BroadcastKey(Site)
                    /\ ~IsJson(message.data)
       IN  /\ sub' = [sub EXCEPT ![w] = Tail(@)]
           /\ IF decodes
              THEN \E run \in Runs(JsonLoads(message.data)) :
                       /\ Dispatch(w, JsonLoads(message.data), run, "subscription", lists)
                       /\ wpc' = [wpc EXCEPT ![w] = AfterDispatch("broadcast", run)]
              ELSE /\ UNCHANGED <<lists, ttl, pushed, dlog>>
                   /\ hash' = IF fails THEN RemoveHash(hash, w) ELSE hash
                   /\ strs' = IF fails THEN RemoveStrs(strs, w) ELSE strs
                   /\ wpc' = [wpc EXCEPT ![w] = IF fails THEN "shutdown" ELSE "broadcast"]
           /\ ending' = [ending EXCEPT ![w] = IF fails THEN "raise" ELSE @]
           /\ teardown' = [teardown EXCEPT ![w] = IF fails THEN FinallyRemoves(@) ELSE @]
    /\ UNCHANGED <<monitor, active, maintained, rpc, sent, issued, garbage, logvars, queue,
                   conn>>

\* The rest of loop_inner once get_message returned None (worker_tick, the
\* sleep, the maintenance block when it is due), and the while condition of
\* loop(); when that is false, the finally clause begins and
\* remove_worker_info_key runs.  The first maintenance is due at once:
\* last_maintenance starts one interval before startup_time.
LoopInnerEnd(w) ==
    /\ Drained(w)
    /\ sub[w] = <<>>
    /\ \E due \in BOOLEAN :
          LET maintain == due \/ ~maintained[w]
              again == active[w] /\ monitor[w].active
              h == IF maintain THEN UpdateHash(hash, w) ELSE hash
              s == IF maintain THEN UpdateStrs(strs, w) ELSE strs
          IN  /\ hash' = IF again THEN h ELSE RemoveHash(h, w)
              /\ strs' = IF again THEN s ELSE RemoveStrs(s, w)
              /\ maintained' = [maintained EXCEPT ![w] = @ \/ maintain]
              /\ wpc' = [wpc EXCEPT ![w] = IF again THEN "direct" ELSE "shutdown"]
              /\ ending' = [ending EXCEPT ![w] = IF again THEN @ ELSE "stop"]
              /\ teardown' = [teardown EXCEPT ![w] =
                     IF again THEN @ ELSE FinallyRemoves(@)]
    /\ UNCHANGED <<lists, ttl, sub, monitor, active, dlog, rpc, sent, pushed, issued,
                   garbage, logvars, queue, conn>>

\* A KeyboardInterrupt reaches the main thread inside the try of loop(): it
\* is caught, and the finally clause begins with remove_worker_info_key.
KeyboardInterrupt(w) ==
    /\ wpc[w] \in {"direct", "broadcast", "direct_stop", "broadcast_stop"}
    /\ hash' = RemoveHash(hash, w)
    /\ strs' = RemoveStrs(strs, w)
    /\ wpc' = [wpc EXCEPT ![w] = "shutdown"]
    /\ ending' = [ending EXCEPT ![w] = "interrupt"]
    /\ teardown' = [teardown EXCEPT ![w] = FinallyRemoves(@)]
    /\ UNCHANGED <<lists, ttl, sub, monitor, active, maintained, dlog, rpc, sent,
                   pushed, issued, garbage, logvars, queue, conn>>

\* finally: worker_shutdown(); loop() returns, or raises again what it caught.
WorkerShutdown(w) ==
    /\ wpc[w] = "shutdown"
    /\ wpc' = [wpc EXCEPT ![w] = "done"]
    /\ teardown' = [teardown EXCEPT ![w] = FinallyShutsDown(@, ending[w])]
    /\ UNCHANGED <<lists, ttl, strs, hash, sub, monitor, active, maintained, ending,
                   dlog, rpc, sent, pushed, issued, garbage, logvars, queue, conn>>

\* The process ends after loop(): the atexit hook calls
\* remove_worker_info_key once more, the daemon thread and the pub/sub
\* connection go away.
ProcessExit(w) ==
    /\ wpc[w] = "done"
    /\ hash' = RemoveHash(hash, w)
    /\ strs' = RemoveStrs(strs, w)
    /\ wpc' = [wpc EXCEPT ![w] = "exited"]
    /\ monitor' = [monitor EXCEPT ![w].alive = FALSE]
    /\ sub' = [sub EXCEPT ![w] = <<>>]
    /\ UNCHANGED <<lists, ttl, active, maintained, ending, dlog, rpc, sent, pushed,
                   issued, garbage, logvars, queue, faultvars>>

\* ------------------------------------------------------------ the clients
\* The data a caller sends.
Data == [val |-> "hi"]

\* The commands callers ask for: the handlers, and one no worker has.
Commands == HandlerNames \cup {"no_such"}

\* The --multicast patterns callers use: every worker of the site, one
\* worker by type and id, the workers of a type nobody runs.
Patterns == {<<"*">>, <<WorkerType>> \o W1, <<"batch", "*">>}

\* "<mode>:" + str(uuid4()).split('-')[-1]: a token never handed out before.
NewCid(prefix) == <<prefix, ToString(issued + 1)>>

\* The state of a perform_rpc call after it issued its request: args.multicast
\* (the empty string when it is None), wait_count, reply_count, the envelopes
\* yielded so far, and whether its loop has ended.  wait_count is the set of
\* reply counts that end the collection: {n} for the number n, {} for None.
NewRpc(multicast, wait_count) ==
    [multicast |-> multicast, wait_count |-> wait_count, reply_count |-> 0,
     yielded |-> <<>>, done |-> FALSE]

\* The wait_count Client.call returns.
CallWaitCount == {1}

\* Client.broadcast returning 1, as Client.call does.
BroadcastWaitsForOne == {1}

\* The wait_count Client.broadcast returns: None.
BroadcastWaitCount == {}

\* The wait_count Client.multicast returns: the number of keys it looped over.
MulticastWaitCount(keys) == {Cardinality(keys)}

\* Client.call leaving the key's time to live alone.
CallWithoutExpire(db, src_id, key, command, data, cid) ==
    [lists |-> QueuePush(db.lists, key, Request(command, data, cid, src_id)),
     ttl |-> db.ttl]

\* Client.call: push the request envelope, set the key's time to live,
\* return (reply queue, 1).  The state of Redis is the pair of its lists and
\* their times to live.
Call(db, src_id, key, command, data, cid) ==
    LET after == QueuePush(db.lists, key, Request(command, data, cid, src_id))
    IN  [lists |-> after, ttl |-> Expire(db.ttl, after, key, command_ttl)]

Db == [lists |-> lists, ttl |-> ttl]

\* perform_rpc with worker_id set: call_direct.
CallDirect(dst_id, command) ==
    /\ LET cid == NewCid("c")
           key == DirectKey(dst_id)
           after == Call(Db, NoWorker, key, command, Data, cid)
       IN  /\ lists' = after.lists
           /\ ttl' = after.ttl
           /\ sent' = Append(sent, [key |-> key, c |-> cid])
           /\ rpc' = LSet(rpc, cid, NewRpc(<<>>, CallWaitCount))
    /\ issued' = issued + 1
    /\ UNCHANGED <<strs, hash, sub, monitor, wpc, active, maintained, ending, dlog,
                   pushed, garbage, logvars, queue, faultvars>>

\* perform_rpc with worker_type set: call_group.
CallGroup(command) ==
    /\ LET cid == NewCid("c")
           key == GroupKey(Site, WorkerType)
           after == Call(Db, NoWorker, key, command, Data, cid)
       IN  /\ lists' = after.lists
           /\ ttl' = after.ttl
           /\ sent' = Append(sent, [key |-> key, c |-> cid])
           /\ rpc' = LSet(rpc, cid, NewRpc(<<>>, CallWaitCount))
    /\ issued' = issued + 1
    /\ UNCHANGED <<strs, hash, sub, monitor, wpc, active, maintained, ending, dlog,
                   pushed, garbage, logvars, queue, faultvars>>

\* PUBLISH: the message reaches every connection subscribed to the channel.
Publish(channel, data) ==
    [w \in Workers |->
        IF Running(w) THEN Append(sub[w], PubMessage(channel, data)) ELSE sub[w]]

\* perform_rpc with no destination: broadcast; wait_count is None.
Broadcast(command) ==
    /\ LET cid == NewCid("b")
           key == BroadcastKey(Site)
       IN  /\ sub' = Publish(key, JsonDumps(Request(command, Data, cid, NoWorker)))
           /\ sent' = Append(sent, [key |-> key, c |-> cid])
           /\ rpc' = LSet(rpc, cid, NewRpc(<<>>, BroadcastWaitCount))
    /\ issued' = issued + 1
    /\ UNCHANGED <<lists, ttl, strs, hash, monitor, wpc, active, maintained, ending,
                   dlog, pushed, garbage, logvars, queue, faultvars>>

\* The loop of Client.multicast over the keys scan_iter returned.
RECURSIVE MulticastCalls(_, _, _, _, _)
MulticastCalls(db, keys, src_id, command, cid) ==
    IF keys = {} THEN db
    ELSE LET key == CHOOSE k \in keys : TRUE
         IN  MulticastCalls(Call(db, src_id, MulticastTarget(key), command, Data, cid),
                            keys \ {key}, src_id, command, cid)

RECURSIVE MulticastSent(_, _)
MulticastSent(keys, cid) ==
    IF keys = {} THEN <<>>
    ELSE LET key == CHOOSE k \in keys : TRUE
         IN  <<[key |-> MulticastTarget(key), c |-> cid]>>
             \o MulticastSent(keys \ {key}, cid)

\* perform_rpc with multicast set: one call per presence key found; wait_count
\* is the number of keys.
Multicast(multicast, command) ==
    /\ LET cid == NewCid("m")
           keys == ScanIter(lists, strs, <<"worker", Site>> \o multicast)
           after == MulticastCalls(Db, keys, NoWorker, command, cid)
       IN  /\ lists' = after.lists
           /\ ttl' = after.ttl
           /\ sent' = sent \o MulticastSent(keys, cid)
           /\ rpc' = LSet(rpc, cid, NewRpc(multicast, MulticastWaitCount(keys)))
    /\ issued' = issued + 1
    /\ UNCHANGED <<strs, hash, sub, monitor, wpc, active, maintained, ending, dlog,
                   pushed, garbage, logvars, queue, faultvars>>

\* perform_rpc comparing reply_count with wait_count after every envelope,
\* those of a stream included.
ChecksEveryEnvelope(reply, reply_count, wait_count) == reply_count \in wait_count

\* perform_rpc leaving its loop only at the deadline.
OnlyTheDeadline(reply, reply_count, wait_count) == FALSE

\* perform_rpc after it yielded `reply` and counted it: the loop ends unless
\* the envelope has z >= 0 (continue) or reply_count differs from wait_count.
Satisfied(reply, reply_count, wait_count) ==
    /\ ~(HasZ(reply) /\ reply.z >= 0)
    /\ reply_count \in wait_count

\* perform_rpc, one turn of its loop in which reply_queue.pop finds an
\* element.  A decoded envelope is yielded and counted; with z >= 0 the loop
\* continues, otherwise it ends when reply_count equals wait_count.  An
\* element that does not decode makes pop return None: the deadline is
\* checked, then wait_count.
RpcPop(cid) ==
    /\ cid \in DOMAIN rpc
    /\ ~rpc[cid].done
    /\ LGet(lists, ReplyKey(cid)) # <<>>
    /\ LET got == QueuePop(lists, ReplyKey(cid))
           count == rpc[cid].reply_count + 1
       IN  /\ lists' = got.lists
           /\ ttl' = Living(ttl, got.lists)
           /\ IF "obj" \in DOMAIN got
              THEN rpc' = [rpc EXCEPT ![cid] =
                      [@ EXCEPT !.yielded = Append(@, got.obj),
                                !.reply_count = count,
                                !.done = Satisfied(got.obj, count, rpc[cid].wait_count)]]
              ELSE \E late \in BOOLEAN :
                      rpc' = [rpc EXCEPT ![cid].done =
                                 late \/ rpc[cid].reply_count \in rpc[cid].wait_count]
    /\ UNCHANGED <<strs, hash, sub, monitor, wpc, active, maintained, ending, dlog,
                   sent, pushed, issued, garbage, logvars, queue, faultvars>>

\* perform_rpc checking the deadline on every turn, whether or not the pop
\* found an element.
RpcGivesUp(cid) ==
    /\ cid \in DOMAIN rpc
    /\ ~rpc[cid].done
    /\ rpc' = [rpc EXCEPT ![cid].done = TRUE]
    /\ UNCHANGED <<lists, ttl, strs, hash, sub, monitor, wpc, active, maintained,
                   ending, dlog, sent, pushed, issued, garbage, logvars, queue, faultvars>>

\* perform_rpc, a turn in which pop returns None after its wait and the loop
\* ends: the deadline has passed, or reply_count equals wait_count.
RpcEmptyPop(cid) ==
    /\ cid \in DOMAIN rpc
    /\ ~rpc[cid].done
    /\ LGet(lists, ReplyKey(cid)) = <<>>
    /\ rpc' = [rpc EXCEPT ![cid].done = TRUE]
    /\ UNCHANGED <<lists, ttl, strs, hash, sub, monitor, wpc, active, maintained,
                   ending, dlog, sent, pushed, issued, garbage, logvars, queue, faultvars>>

\* ------------------------------------------------------ foreign producers
\* Some producer writes a text that is not JSON to a request key.
PushGarbage(key) ==
    /\ garbage' = garbage + 1
    /\ lists' = RPush(lists, key, Garbage)
    /\ UNCHANGED ttl
    /\ UNCHANGED <<strs, hash, sub, monitor, wpc, active, maintained, ending, dlog,
                   rpc, sent, pushed, issued, logvars, queue, faultvars>>

\* Some producer publishes a text that is not JSON on the broadcast channel.
PublishGarbage ==
    /\ garbage' = garbage + 1
    /\ sub' = Publish(BroadcastKey(Site), Garbage)
    /\ UNCHANGED <<lists, ttl, strs, hash, monitor, wpc, active, maintained, ending,
                   dlog, rpc, sent, pushed, issued, logvars, queue, faultvars>>

QueueNamesOf(id) == {QueueNames(id)[n] : n \in 1..Len(QueueNames(id))}

Cids == DOMAIN rpc

\* The worker side: every step of a worker's two threads and of its process.
WorkerStep(w) ==
    \/ MonitorThread(w)
    \/ ReadDirectMessage(w)
    \/ ReadBroadcastMessage(w)
    \/ LoopInnerEnd(w)
    \/ KeyboardInterrupt(w)
    \/ WorkerShutdown(w)
    \/ ProcessExit(w)

\* perform_rpc collecting the replies of a call.
Collect ==
    \/ \E c \in Cids : RpcPop(c)
    \/ \E c \in Cids : RpcEmptyPop(c)

\* The command of the routing specification.
RoutingCommands == {"ping"}

\* Two workers of one type in one site; callers use the four addressing modes.
Next ==
    \/ \E w \in Workers : WorkerStep(w)
    \/ /\ issued < MaxRequests
       /\ \/ \E w \in Workers, x \in RoutingCommands : CallDirect(w, x)
          \/ \E x \in RoutingCommands : CallGroup(x)
          \/ \E x \in RoutingCommands : Broadcast(x)
          \/ \E p \in Patterns, x \in RoutingCommands : Multicast(p, x)
    \/ Collect

Spec == Init /\ [][Next]_vars

\* One worker; callers ask it for every command, over its direct key and
\* over the broadcast channel.
InitWorker == Flushed /\ Boot({W1})

NextWorker ==
    \/ WorkerStep(W1)
    \/ CmdStopReturns(W1)
    \/ /\ issued < MaxCalls
       /\ \/ \E x \in Commands : CallDirect(W1, x)
          \/ \E x \in Commands : Broadcast(x)
    \/ Collect

SpecWorker == InitWorker /\ [][NextWorker]_vars

\* The commands of the stop specification.
StopCommands == {"stop", "update_spawner"}

\* One worker; callers ask it to stop and to register again, over its direct
\* key and over the broadcast channel.
NextStop ==
    \/ WorkerStep(W1)
    \/ CmdStopReturns(W1)
    \/ /\ issued < MaxStops
       /\ \/ \E x \in StopCommands : CallDirect(W1, x)
          \/ \E x \in StopCommands : Broadcast(x)
    \/ Collect

\* The threads of the worker are scheduled again and again: a thread that
\* can take a step takes one.
SpecStop ==
    /\ InitWorker
    /\ [][NextStop]_vars
    /\ WF_vars(WorkerStep(W1) \/ CmdStopReturns(W1))

\* One worker; callers ping it over its direct key, its group key and the
\* broadcast channel, while a foreign producer writes texts that are not JSON.
NextIntake ==
    \/ WorkerStep(W1)
    \/ /\ issued < MaxPending
       /\ \/ \E x \in RoutingCommands : CallDirect(W1, x)
          \/ \E x \in RoutingCommands : CallGroup(x)
          \/ \E x \in RoutingCommands : Broadcast(x)
    \/ Collect
    \/ /\ garbage < MaxGarbage
       /\ \/ \E k \in QueueNamesOf(W1) : PushGarbage(k)
          \/ PublishGarbage

SpecIntake == InitWorker /\ [][NextIntake]_vars

\* The commands of the sequence specification: one no worker has, and ping.
SequenceCommands == {"no_such", "ping"}

\* One worker that stays in its loop; callers send it several requests, one
\* after the other or at once, over its direct key and the broadcast channel.
NextSequence ==
    \/ MonitorThread(W1)
    \/ ReadDirectMessage(W1)
    \/ ReadBroadcastMessage(W1)
    \/ LoopInnerEnd(W1)
    \/ /\ issued < MaxSequence
       /\ \/ \E x \in SequenceCommands : CallDirect(W1, x)
          \/ \E x \in SequenceCommands : Broadcast(x)
    \/ Collect

SpecSequence == InitWorker /\ [][NextSequence]_vars

\* The same, with the loop of every perform_rpc call running on: pop(wait=1)
\* returns after a second at most, and the clock reaches the deadline.
SpecCollect == SpecSequence /\ WF_vars(Collect)

\* ---------------------------------------------------------- the log key
\* The key of Worker.make_log: "logs:<type>:<id>".
LogKey == <<"logs", WorkerType>> \o W1

\* push_constrained trimming from the head: LTRIM 0 N-1 keeps the oldest N.
push_constrained_head(pyobj, seconds, trim_start, trim_end) ==
    <<[op |-> "rpush", text |-> JsonDumps(pyobj)],
      [op |-> "expire", seconds |-> seconds],
      [op |-> "ltrim", start |-> 0, stop |-> (0 - trim_start) - 1]>>

\* Queue.push_constrained: the commands it queues on a pipeline that is no
\* transaction; execute() sends them, and Redis runs them in this order,
\* commands of other connections in between.
push_constrained(pyobj, seconds, trim_start, trim_end) ==
    <<[op |-> "rpush", text |-> JsonDumps(pyobj)],
      [op |-> "expire", seconds |-> seconds],
      [op |-> "ltrim", start |-> trim_start, stop |-> trim_end]>>

\* The elements writer a has pushed.
PushedBy(a) == {n \in 1..Len(logpushed) : logpushed[n].by = a}

\* push_constrained calls made so far.
Pushes ==
    Cardinality({n \in 1..Len(logpushed) : logpushed[n].by \in Writers})
    + Cardinality({a \in Writers : pipe[a] # <<>> /\ pipe[a][1].op = "rpush"})

\* Writer a calls push_constrained(entry, LOG_TTL, -keep, -1), as
\* LogHandler.emit does with keep = LOG_MAX_ELEMENTS.
PushConstrained(a, keep) ==
    /\ pipe[a] = <<>>
    /\ Pushes < MaxPushes
    /\ pipe' = [pipe EXCEPT ![a] =
           push_constrained([by |-> a, n |-> Cardinality(PushedBy(a)) + 1],
                            LOG_TTL, -keep, -1)]
    /\ UNCHANGED <<lists, ttl, strs, hash, sub, monitor, wpc, active, maintained,
                   ending, dlog, rpc, sent, pushed, issued, garbage, logpushed, queue, faultvars>>

\* Redis runs the next command of writer a's pipeline.
PipelineCommand(a) ==
    /\ pipe[a] # <<>>
    /\ LET cmd == Head(pipe[a])
       IN  /\ lists' =
                CASE cmd.op = "rpush" -> RPush(lists, LogKey, cmd.text)
                  [] cmd.op = "expire" -> lists
                  [] cmd.op = "ltrim" ->
                        LSet(lists, LogKey, LTrimmed(LGet(lists, LogKey), cmd.start, cmd.stop))
           /\ ttl' =
                CASE cmd.op = "rpush" -> ttl
                  [] cmd.op = "expire" -> Expire(ttl, lists, LogKey, cmd.seconds)
                  [] cmd.op = "ltrim" -> Living(ttl, lists')
           /\ logpushed' =
                IF cmd.op = "rpush" THEN Append(logpushed, JsonLoads(cmd.text)) ELSE logpushed
    /\ pipe' = [pipe EXCEPT ![a] = Tail(@)]
    /\ UNCHANGED <<strs, hash, sub, monitor, wpc, active, maintained, ending, dlog,
                   rpc, sent, pushed, issued, garbage, queue, faultvars>>

\* The log key holds any list of earlier entries; no worker runs.
InitLog ==
    /\ \E n \in 0..MaxPrior :
          /\ logpushed = [k \in 1..n |-> [by |-> "prior", n |-> k]]
          /\ lists = LSet(EmptyMap, LogKey, [k \in 1..n |-> JsonDumps(logpushed[k])])
    /\ ttl = EmptyMap
    /\ Boot({})

NextLog ==
    \/ \E a \in Writers, keep \in 1..MaxKeep : PushConstrained(a, keep)
    \/ \E a \in Writers : PipelineCommand(a)

SpecLog == InitLog /\ [][NextLog]_vars

\* ------------------------------------------------------- a Queue object
\* The key of the Queue object: the reply queue of some call.
QueueName == <<"reply", "c", "0">>

\* The texts the key may hold: documents, and a text that is not JSON.
QueueElements == {JsonDumps([val |-> "hi"]), JsonDumps([val |-> "yo"]), Garbage}

\* Queue.pop letting the exception of the Redis call through.
PopRaising(q, l, name, fails) ==
    IF fails
    THEN [queue |-> [active |-> q.active, returned |-> <<>>, raised |-> TRUE,
                     failed |-> TRUE],
          lists |-> l]
    ELSE IF LGet(l, name) = <<>>
    THEN [queue |-> [active |-> q.active, returned |-> <<>>, raised |-> FALSE,
                     failed |-> FALSE],
          lists |-> l]
    ELSE LET got == QueuePop(l, name)
         IN  [queue |-> [active |-> q.active,
                         returned |-> IF "obj" \in DOMAIN got THEN <<got.obj>> ELSE <<>>,
                         raised |-> FALSE, failed |-> FALSE],
              lists |-> got.lists]

\* Queue.pop as a whole, on the Queue object q: `fails` says whether the
\* Redis call (blpop / lpop) raises.  The first try/except turns that into
\* active = False and obj = None; the second returns the decoded element, or
\* None (returned = <<>>) when there is none or json.loads raises.
Pop(q, l, name, fails) ==
    IF fails
    THEN [queue |-> [active |-> FALSE, returned |-> <<>>, raised |-> FALSE,
                     failed |-> TRUE],
          lists |-> l]
    ELSE IF LGet(l, name) = <<>>
    THEN [queue |-> [active |-> q.active, returned |-> <<>>, raised |-> FALSE,
                     failed |-> FALSE],
          lists |-> l]
    ELSE LET got == QueuePop(l, name)
         IN  [queue |-> [active |-> q.active,
                         returned |-> IF "obj" \in DOMAIN got THEN <<got.obj>> ELSE <<>>,
                         raised |-> FALSE, failed |-> FALSE],
              lists |-> got.lists]

\* A caller pops its Queue; the Redis call may fail.
QueuePopCall(fails) ==
    /\ LET out == Pop(queue, lists, QueueName, fails)
       IN  /\ queue' = out.queue
           /\ lists' = out.lists
           /\ ttl' = Living(ttl, out.lists)
    /\ UNCHANGED <<strs, hash, sub, monitor, wpc, active, maintained, ending, dlog,
                   rpc, sent, pushed, issued, garbage, logvars, faultvars>>

\* Some producer pushes a document to the key.
QueuePushCall(pyobj) ==
    /\ Len(LGet(lists, QueueName)) < MaxQueued
    /\ lists' = QueuePush(lists, QueueName, pyobj)
    /\ UNCHANGED <<ttl, strs, hash, sub, monitor, wpc, active, maintained, ending, dlog,
                   rpc, sent, pushed, issued, garbage, logvars, queue, faultvars>>

\* The key holds any list of texts; no worker runs.
InitQueue ==
    /\ \E n \in 0..MaxQueued : \E held \in [1..n -> QueueElements] :
          lists = LSet(EmptyMap, QueueName, held)
    /\ ttl = EmptyMap
    /\ logpushed = <<>>
    /\ Boot({})

NextQueue ==
    \/ \E fails \in BOOLEAN : QueuePopCall(fails)
    \/ \E pyobj \in {[val |-> "hi"], [val |-> "yo"]} : QueuePushCall(pyobj)

SpecQueue == InitQueue /\ [][NextQueue]_vars

\* Queue.clear: return connection.ltrim(name, 0, 0), which answers OK; LTRIM
\* keeps the elements 0..0 of the list.
QueueClearCall ==
    /\ lists' = LSet(lists, QueueName, LTrimmed(LGet(lists, QueueName), 0, 0))
    /\ ttl' = Living(ttl, lists')
    /\ queue' = [active |-> queue.active, returned |-> <<[ok |-> TRUE]>>,
                 raised |-> FALSE, failed |-> FALSE]
    /\ UNCHANGED <<strs, hash, sub, monitor, wpc, active, maintained, ending, dlog,
                   rpc, sent, pushed, issued, garbage, logvars, faultvars>>

\* A caller pops and clears its Queue while producers push.
NextClear ==
    \/ NextQueue
    \/ QueueClearCall

SpecClear == InitQueue /\ [][NextClear]_vars

\* ------------------------------------------------- multicast and streams
\* The command of the multicast specification: the handler that replies with
\* lazy sequences.
StreamCommands == {"work"}

\* Two workers in their loops; a caller multicasts to every registered one
\* (pattern "*") a command whose handler may stream its reply.
NextStreams ==
    \/ \E w \in Workers : MonitorThread(w)
    \/ \E w \in Workers : ReadDirectMessage(w)
    \/ \E w \in Workers : ReadBroadcastMessage(w)
    \/ \E w \in Workers : LoopInnerEnd(w)
    \/ /\ issued < MaxRequests
       /\ \E x \in StreamCommands : Multicast(<<"*">>, x)
    \/ Collect

SpecStreams == Init /\ [][NextStreams]_vars

\* ------------------------------------------------------- a busy direct key
\* A producer that calls the worker directly again and again pushes the
\* request envelope of its call once more, as long as fewer than MaxBacklog
\* of them wait on the key or on output_queue.
PushDirectAgain(w) ==
    /\ Len(LGet(lists, DirectKey(w))) + Len(monitor[w].output_queue) < MaxBacklog
    /\ LET after == Call(Db, NoWorker, DirectKey(w), "ping", Data, <<"c", "0">>)
       IN  /\ lists' = after.lists
           /\ ttl' = after.ttl
    /\ UNCHANGED <<strs, hash, sub, monitor, wpc, active, maintained, ending, dlog, rpc,
                   sent, pushed, issued, garbage, logvars, queue, faultvars>>

\* Monitor.pop, called by read_direct_messages: the head of output_queue is
\* taken.  What process_message does with it is left out here, where only the
\* keys the Monitor serves matter.
MonitorPop(w) ==
    /\ wpc[w] = "direct"
    /\ monitor[w].output_queue # <<>>
    /\ monitor' = [monitor EXCEPT ![w].output_queue = Tail(@)]
    /\ UNCHANGED <<lists, ttl, strs, hash, sub, wpc, active, maintained, ending, dlog,
                   rpc, sent, pushed, issued, garbage, logvars, queue, faultvars>>

\* One worker, a producer that keeps its direct key busy, and callers of its
\* group.
NextBusy ==
    \/ MonitorThread(W1)
    \/ MonitorPop(W1)
    \/ ReadBroadcastMessage(W1)
    \/ LoopInnerEnd(W1)
    \/ PushDirectAgain(W1)
    \/ /\ issued < MaxRequests
       /\ \E x \in RoutingCommands : CallGroup(x)

\* Both threads of the worker run again and again; the producers are free.
SpecBusy ==
    /\ InitWorker
    /\ [][NextBusy]_vars
    /\ WF_vars(MonitorThread(W1))
    /\ WF_vars(MonitorPop(W1) \/ ReadBroadcastMessage(W1) \/ LoopInnerEnd(W1))

\* ------------------------------------------------------------ key expiry
\* Redis deletes a key whose time to live has run out, whatever it holds.
KeyExpires(key) ==
    /\ key \in DOMAIN ttl
    /\ lists' = LSet(lists, key, <<>>)
    /\ ttl' = [k \in DOMAIN ttl \ {key} |-> ttl[k]]
    /\ UNCHANGED <<strs, hash, sub, monitor, wpc, active, maintained, ending, dlog, rpc,
                   sent, pushed, issued, garbage, logvars, queue, faultvars>>

\* The process of worker w starts: Worker.__init__ with connect(), which
\* starts the Monitor thread on the two keys and subscribes.
WorkerStart(w) ==
    /\ wpc[w] = "exited"
    /\ ending[w] = "none"
    /\ wpc' = [wpc EXCEPT ![w] = "direct"]
    /\ monitor' = [monitor EXCEPT ![w] =
           [active |-> TRUE, alive |-> TRUE, output_queue |-> <<>>]]
    /\ sub' = [sub EXCEPT ![w] = <<SubscribeAck>>]
    /\ UNCHANGED <<lists, ttl, strs, hash, active, maintained, ending, dlog, rpc, sent,
                   pushed, issued, garbage, logvars, queue, faultvars>>

\* No worker runs yet.
InitExpiry == Flushed /\ Boot({})

\* Callers push requests for a worker that starts at some time; keys expire.
NextExpiry ==
    \/ WorkerStart(W1)
    \/ MonitorThread(W1)
    \/ ReadDirectMessage(W1)
    \/ ReadBroadcastMessage(W1)
    \/ LoopInnerEnd(W1)
    \/ /\ issued < MaxSequence
       /\ \/ \E x \in RoutingCommands : CallDirect(W1, x)
          \/ \E x \in RoutingCommands : CallGroup(x)
    \/ \E key \in DOMAIN ttl : KeyExpires(key)
    \/ Collect

SpecExpiry == InitExpiry /\ [][NextExpiry]_vars

\* One worker whose handler replies in every way, among them with lazy
\* sequences; reply keys expire.  Redis deletes a key whose time has run out.
NextReplies ==
    \/ MonitorThread(W1)
    \/ ReadDirectMessage(W1)
    \/ ReadBroadcastMessage(W1)
    \/ LoopInnerEnd(W1)
    \/ /\ issued < MaxCalls
       /\ \E x \in StreamCommands : CallDirect(W1, x)
    \/ \E key \in DOMAIN ttl : KeyExpires(key)
    \/ Collect

SpecReplies ==
    /\ InitWorker
    /\ [][NextReplies]_vars
    /\ WF_vars(\E key \in DOMAIN ttl : KeyExpires(key))

\* ------------------------------------------------------------- failures
\* Monitor.stop: active = False.  Worker.connect calls it on the Monitor it
\* replaces; the thread leaves its while loop.
MonitorStop(w) ==
    /\ wpc[w] \in {"direct", "broadcast"}
    /\ monitor[w].active
    /\ monitor' = [monitor EXCEPT ![w].active = FALSE]
    /\ UNCHANGED <<lists, ttl, strs, hash, sub, wpc, active, maintained, ending, dlog,
                   rpc, sent, pushed, issued, garbage, logvars, queue, faultvars>>

\* Monitor.thread, a turn of its loop whose brpop raises a transport error:
\* nothing in the thread catches it, so the thread ends; Monitor.active is
\* not written.
MonitorConnectionError(w) ==
    /\ Running(w)
    /\ monitor[w].active /\ monitor[w].alive
    /\ monitor' = [monitor EXCEPT ![w].alive = FALSE]
    /\ UNCHANGED <<lists, ttl, strs, hash, sub, wpc, active, maintained, ending, dlog,
                   rpc, sent, pushed, issued, garbage, logvars, queue, faultvars>>

\* JSON documents that are no complete request envelope: one without x, one
\* without c.
Incomplete ==
    {[d |-> Data, c |-> <<"c", "0">>, i |-> NoWorker],
     [x |-> "ping", d |-> Data, i |-> NoWorker]}

\* Some producer pushes such a document to the direct key of worker w.
PushIncomplete(w, message) ==
    /\ garbage' = garbage + 1
    /\ lists' = QueuePush(lists, DirectKey(w), message)
    /\ UNCHANGED <<ttl, strs, hash, sub, monitor, wpc, active, maintained, ending, dlog,
                   rpc, sent, pushed, issued, logvars, queue, faultvars>>

\* read_direct_messages, a turn in which Monitor.pop returns a document that
\* is no complete envelope: process_message raises TypeError outside its try
\* block, nothing is pushed, and the exception ends loop() through its except
\* and finally clauses.
ReadIncompleteMessage(w) ==
    /\ wpc[w] = "direct"
    /\ monitor[w].output_queue # <<>>
    /\ ~Complete(Head(monitor[w].output_queue))
    /\ monitor' = [monitor EXCEPT ![w].output_queue = Tail(@)]
    /\ hash' = RemoveHash(hash, w)
    /\ strs' = RemoveStrs(strs, w)
    /\ wpc' = [wpc EXCEPT ![w] = "shutdown"]
    /\ ending' = [ending EXCEPT ![w] = "raise"]
    /\ teardown' = [teardown EXCEPT ![w] = FinallyRemoves(@)]
    /\ UNCHANGED <<lists, ttl, sub, active, maintained, dlog, rpc, sent, pushed,
                   issued, garbage, logvars, queue, conn>>

\* Subscription.get_message from the turn `retry` of its while loop on.
\* reads[k] says that the k-th pubsub.get_message raises
\* redis.ConnectionError, conns[k] that the k-th establish_conn raises.  A
\* read that does not raise returns; a read that raises is followed by
\* establish_conn inside the except clause, which nothing guards, and by
\* retry += 1; when the loop is left, the method returns None.
RECURSIVE GetMessage(_, _, _)
GetMessage(retry, reads, conns) ==
    IF retry >= max_retry
    THEN [reconnects |-> retry, reads |-> retry, result |-> "none"]
    ELSE IF ~reads[retry + 1]
         THEN [reconnects |-> retry, reads |-> retry + 1, result |-> "read"]
         ELSE IF conns[retry + 1]
              THEN [reconnects |-> retry + 1, reads |-> retry + 1, result |-> "raised"]
              ELSE GetMessage(retry + 1, reads, conns)

\* read_broadcast_messages, a turn whose get_message meets a transport error
\* at its first read.  A new pub/sub connection has nothing pending but the
\* notification of its SUBSCRIBE.  When get_message returns, the turn goes on
\* as any other; when it raises, loop() ends through its except and finally
\* clauses.
SubscriptionError(w, reads, conns) ==
    /\ Drained(w)
    /\ reads[1]
    /\ LET got == GetMessage(0, reads, conns)
           raised == got.result = "raised"
       IN  /\ conn' = [conn EXCEPT ![w] = got]
           /\ sub' = [sub EXCEPT ![w] = IF raised THEN <<>> ELSE <<SubscribeAck>>]
           /\ hash' = IF raised THEN RemoveHash(hash, w) ELSE hash
           /\ strs' = IF raised THEN RemoveStrs(strs, w) ELSE strs
           /\ wpc' = [wpc EXCEPT ![w] = IF raised THEN "shutdown" ELSE "broadcast"]
           /\ ending' = [ending EXCEPT ![w] = IF raised THEN "raise" ELSE @]
           /\ teardown' = [teardown EXCEPT ![w] = IF raised THEN FinallyRemoves(@) ELSE @]
    /\ UNCHANGED <<lists, ttl, monitor, active, maintained, dlog, rpc, sent, pushed,
                   issued, garbage, logvars, queue>>

\* The hooks a subclass overrides, which loop() calls inside its try block.
Hooks == {"worker_startup", "worker_tick"}

\* Where loop() calls the hook: worker_startup before the while loop,
\* worker_tick in loop_inner after both reads.
AtHook(w, hook) ==
    IF hook = "worker_startup"
    THEN wpc[w] = "direct" /\ ~maintained[w] /\ dlog[w] = <<>>
    ELSE Drained(w) /\ sub[w] = <<>>

\* The hook raises an Exception: the except clause logs it, the finally
\* clause begins with remove_worker_info_key.
HookRaises(w, hook) ==
    /\ AtHook(w, hook)
    /\ hash' = RemoveHash(hash, w)
    /\ strs' = RemoveStrs(strs, w)
    /\ wpc' = [wpc EXCEPT ![w] = "shutdown"]
    /\ ending' = [ending EXCEPT ![w] = "raise"]
    /\ teardown' = [teardown EXCEPT ![w] = FinallyRemoves(@)]
    /\ UNCHANGED <<lists, ttl, sub, monitor, active, maintained, dlog, rpc, sent,
                   pushed, issued, garbage, logvars, queue, conn>>

\* The commands of the failure specification.
FaultCommands == {"ping", "stop"}

\* One worker whose hooks, Monitor and connections can fail; callers reach it
\* over its direct key and over the broadcast channel.
NextFaults ==
    \/ WorkerStep(W1)
    \/ CmdStopReturns(W1)
    \/ MonitorStop(W1)
    \/ MonitorConnectionError(W1)
    \/ \E hook \in Hooks : HookRaises(W1, hook)
    \/ /\ issued < MaxCalls
       /\ \/ \E x \in FaultCommands : CallDirect(W1, x)
          \/ \E x \in FaultCommands : Broadcast(x)
    \/ /\ garbage < MaxGarbage
       /\ PublishGarbage
    \/ Collect

SpecFaults == InitWorker /\ [][NextFaults]_vars

\* The same worker, which producers also reach with documents that are no
\* complete envelopes and whose pub/sub connection can fail.
NextBroken ==
    \/ NextFaults
    \/ /\ garbage < MaxGarbage
       /\ \E message \in Incomplete : PushIncomplete(W1, message)
    \/ ReadIncompleteMessage(W1)
    \/ \E reads, conns \in [1..max_retry -> BOOLEAN] : SubscriptionError(W1, reads, conns)

SpecBroken == InitWorker /\ [][NextBroken]_vars

\* ================================================================ claims
\* The documents of a list of JSON texts.
Docs(texts) == [n \in 1..Len(texts) |-> JsonLoads(texts[n])]

\* The envelopes worker w pushed to reply:<cid>, in push order.
FromWorker(w, cid) == SelectSeq(LGet(pushed, cid), LAMBDA env : env.i = w)

\* The positions of dlog[w] at which the envelope carried correlation cid.
DispatchesOf(w, cid) == {n \in 1..Len(dlog[w]) : dlog[w][n].c = cid}

TerminalsFrom(w, cid) ==
    LET s == FromWorker(w, cid)
    IN  Cardinality({n \in 1..Len(s) : IsTerminal(s[n])})

\* C1: for every request envelope a worker has dispatched through
\* process_message, that worker has pushed exactly one terminal reply
\* envelope (no z, or z = -1) to reply:<c>, whatever the handler did: replied,
\* returned without replying, raised before or after replying, raised while
\* its lazy sequence was being streamed, or did not exist.
C1_OneTerminalReplyPerDispatch ==
    \A w \in Workers : \A cid \in DOMAIN rpc :
        /\ TerminalsFrom(w, cid) = Cardinality(DispatchesOf(w, cid))
        /\ \A n \in 1..Len(LGet(pushed, cid)) : pushed[cid][n].c = cid

\* A handler replied and then raised: process_message took its failure branch
\* with did_reply set.
C1_Witness ==
    \E n \in 1..Len(dlog[W1]) :
        /\ dlog[W1][n].run.raises = "Exception"
        /\ dlog[W1][n].run.calls # <<>>

\* C2: when the handler exists, returns without raising and called none of
\* reply / reply_success / reply_failure, the worker has pushed exactly one
\* envelope for the request, carrying d = {success: true, msg: "OK"}; when the
\* handler returned after replying, the worker has pushed what the handler
\* replied and nothing else.
C2_AutoSuccess ==
    \A w \in Workers : \A n \in 1..Len(dlog[w]) :
        LET e == dlog[w][n]
        IN  (e.x \in HandlerNames /\ e.run.raises = "none") =>
                IF e.run.calls = <<>>
                THEN FromWorker(w, e.c) = <<[c |-> e.c, d |-> [success |-> TRUE, msg |-> <<"OK">>], i |-> w]>>
                ELSE FromWorker(w, e.c) = Replies(w, e.c, e.run.calls)

\* A handler that returned without replying has been dispatched, and one
\* envelope of the worker is on record for its request.
C2_Witness ==
    \E n \in 1..Len(dlog[W1]) :
        /\ dlog[W1][n].x = "work"
        /\ dlog[W1][n].run.raises = "none"
        /\ dlog[W1][n].run.calls = <<>>
        /\ Len(FromWorker(W1, dlog[W1][n].c)) = 1

\* C3: the envelopes a client has popped from reply:<c>, followed by those
\* still on the list, are the envelopes pushed to it, in push order; and among
\* the envelopes one worker pushed for c, the z >= 0 envelopes are numbered
\* 0, 1, 2, ... in push order and an envelope with z = -1 is the last one.
C3_ReplyOrder ==
    \A cid \in DOMAIN rpc :
        /\ rpc[cid].yielded \o Docs(LGet(lists, ReplyKey(cid))) = LGet(pushed, cid)
        /\ \A w \in Workers :
              LET s == FromWorker(w, cid)
              IN  \A n \in 1..Len(s) :
                      HasZ(s[n]) =>
                          /\ s[n].z = -1 => n = Len(s)
                          /\ s[n].z # -1 => s[n].z = n - 1
                          /\ \A m \in 1..(n - 1) : HasZ(s[m]) /\ s[m].z = m - 1

\* A client has popped a whole stream of at least one element: the last
\* envelope it yielded is the terminator.
C3_Witness ==
    \E cid \in DOMAIN rpc :
        LET y == rpc[cid].yielded
        IN  /\ Len(y) >= 2
            /\ HasZ(y[Len(y)]) /\ y[Len(y)].z = -1
            /\ HasZ(y[1]) /\ y[1].z = 0

\* The loop of worker w has ended gracefully: cmd_stop or a keyboard interrupt.
EndedGracefully(w) ==
    /\ wpc[w] \in {"shutdown", "done", "exited"}
    /\ ending[w] \in {"stop", "interrupt"}

\* C4: once the loop of a worker has ended gracefully, the presence key
\* update_worker_info_key wrote for it does not exist and the hash workers
\* has no field of that name, in every later state as well.
C4_PresenceRemoved ==
    \A w \in Workers :
        EndedGracefully(w) =>
            /\ InfoKeyWritten(Site, WorkerType, w) \notin strs
            /\ InfoKeyWritten(Site, WorkerType, w) \notin DOMAIN hash

\* A worker that had registered was stopped by cmd_stop and loop() returned.
C4_Witness ==
    /\ wpc[W1] = "done"
    /\ ending[W1] = "stop"
    /\ maintained[W1]
    /\ \E n \in 1..Len(dlog[W1]) : dlog[W1][n].x = "stop"

\* The list at the log key.
LogList == LGet(lists, LogKey)

\* The last n elements of a sequence.
LastOf(s, n) == SubSeq(s, Len(s) - n + 1, Len(s))

\* C5: when the last command of a push_constrained(v, ttl, -N, -1) pipeline
\* has run, the list holds at most N elements, and they are the most recently
\* pushed elements in push order (all that were on the list, when fewer than
\* N), whatever the list held before and however the commands of other
\* writers' pipelines fell between this pipeline's commands.
C5_PushConstrainedKeepsNewest ==
    [][\A a \in Writers :
          (Len(pipe[a]) = 1 /\ pipe'[a] = <<>>) =>
              LET keep == 0 - pipe[a][1].start
                  kept == IF Len(LogList) < keep THEN Len(LogList) ELSE keep
              IN  /\ Len(LogList') <= keep
                  /\ Len(LogList') = kept
                  /\ Docs(LogList') = LastOf(logpushed', kept)]_vars

\* A pipeline has completed and trimmed: fewer elements are on the list than
\* were pushed to it, among them elements of both writers, and no pipeline is
\* under way.
C5_Witness ==
    /\ \A a \in Writers : pipe[a] = <<>>
    /\ Len(LogList) < Len(logpushed)
    /\ Len(LogList) = MaxKeep
    /\ \A a \in Writers : PushedBy(a) # {}

\* The Monitor thread of worker w was started and has not ended by itself.
MonitorServes(w) == Running(w) => monitor[w].alive

\* C6: a text that is not JSON, arriving on a direct or group key or on the
\* broadcast channel, never ends the consumer: the Monitor thread of every
\* running worker stays alive, and no worker loop is ended by an exception.
C6_MalformedIsDropped ==
    \A w \in {W1} : MonitorServes(w) /\ ending[w] # "raise"

\* The position in `sent` of the request with correlation cid.
SentAt(cid) == CHOOSE n \in 1..Len(sent) : sent[n].c = cid

\* C7: a worker dispatches the envelopes of one request key, and those of the
\* broadcast channel, in the order in which they were pushed or published.
C7_Fifo ==
    \A w \in Workers : \A m, n \in 1..Len(dlog[w]) :
        (m < n /\ sent[SentAt(dlog[w][m].c)].key = sent[SentAt(dlog[w][n].c)].key)
            => SentAt(dlog[w][m].c) < SentAt(dlog[w][n].c)

\* The requests written to the group key.
GroupCids == {cid \in DOMAIN rpc : \E n \in 1..Len(sent) :
                  sent[n].c = cid /\ sent[n].key = GroupKey(Site, WorkerType)}

\* The requests published on the broadcast channel.
BroadcastCids == {cid \in DOMAIN rpc : \E n \in 1..Len(sent) :
                      sent[n].c = cid /\ sent[n].key = BroadcastKey(Site)}

\* How many copies of the request with correlation cid a sequence of
\* documents holds.
Copies(docs, cid) == Cardinality({n \in 1..Len(docs) : docs[n].c = cid})

\* The documents still on a request key.
Waiting(key) == Docs(LGet(lists, key))

Pending(w) ==
    Docs([n \in 1..Len(SelectSeq(sub[w], LAMBDA msg : msg.type = "message")) |->
             SelectSeq(sub[w], LAMBDA msg : msg.type = "message")[n].data])

\* C9: a broadcast returns wait_count = null; every worker whose process runs
\* holds the published envelope exactly once, pending on its subscription or
\* dispatched, and no worker holds it twice; a worker that dispatched it has
\* pushed one reply to reply:<c> with its own id in i and the request's data;
\* and when the client's collection ends, it has yielded every reply pushed
\* until then.
C9_Broadcast ==
    /\ [](\A cid \in BroadcastCids :
            /\ rpc[cid].wait_count = {}
            /\ \A w \in Workers :
                  /\ Copies(Pending(w), cid) + Cardinality(DispatchesOf(w, cid))
                        = IF Running(w) THEN 1 ELSE Cardinality(DispatchesOf(w, cid))
                  /\ Cardinality(DispatchesOf(w, cid)) <= 1
                  /\ FromWorker(w, cid) =
                        IF DispatchesOf(w, cid) = {} THEN <<>>
                        ELSE <<[c |-> cid, d |-> Data, i |-> w]>>)
    /\ [][\A cid \in BroadcastCids :
            (~rpc[cid].done /\ rpc'[cid].done) =>
                rpc'[cid].yielded = LGet(pushed', cid)]_vars

\* The collection of a broadcast has ended after yielding the replies of both
\* workers.
C9_Witness ==
    \E cid \in BroadcastCids :
        /\ rpc[cid].done
        /\ Len(rpc[cid].yielded) = 2
        /\ {rpc[cid].yielded[n].i : n \in 1..2} = Workers

\* The workers whose presence key exists and matches worker:<site>:<pattern>.
Matched(multicast) ==
    {w \in Workers :
        /\ <<"worker", Site, WorkerType>> \o w \in strs
        /\ GlobMatch(<<"worker", Site>> \o multicast, <<"worker", Site, WorkerType>> \o w)}

Streamed(e) == Len(e.run.calls) = 1 /\ IsGenerator(e.run.calls[1])

\* C11: when a handler replied with an n-element lazy sequence that does not
\* raise, the worker has pushed exactly n+1 envelopes to reply:<c>: element k
\* (k = 0..n-1) with z = k and d = the k-th element, then one envelope with
\* z = -1 and d = null; the client counts every envelope it yields, so one
\* that has yielded them all has reply_count = n+1.
C11_StreamFraming ==
    /\ \A w \in Workers : \A m \in 1..Len(dlog[w]) :
          LET e == dlog[w][m]
          IN  (Streamed(e) /\ ~e.run.calls[1].raises) =>
                  LET elems == e.run.calls[1].gen
                      n == Len(elems)
                      s == FromWorker(w, e.c)
                  IN  /\ Len(s) = n + 1
                      /\ \A k \in 1..n :
                            s[k] = [c |-> e.c, d |-> elems[k], i |-> w, z |-> k - 1]
                      /\ s[n + 1] = [c |-> e.c, d |-> [null |-> TRUE], i |-> w, z |-> -1]
                      /\ rpc[e.c].yielded = s => rpc[e.c].reply_count = n + 1
    /\ \A cid \in DOMAIN rpc : rpc[cid].reply_count = Len(rpc[cid].yielded)

\* A handler streamed a sequence of at least one element and the client has
\* yielded all of it, terminator included.
C11_Witness ==
    \E m \in 1..Len(dlog[W1]) :
        LET e == dlog[W1][m]
        IN  /\ Streamed(e) /\ ~e.run.calls[1].raises
            /\ Len(e.run.calls[1].gen) >= 1
            /\ rpc[e.c].yielded = FromWorker(W1, e.c)
            /\ rpc[e.c].reply_count = Len(e.run.calls[1].gen) + 1

\* The step appends to dlog[w]: worker w dispatches an envelope.
Dispatches(w) == Len(dlog'[w]) = Len(dlog[w]) + 1

\* The envelope worker w dispatches in this step.
Dispatched(w) == dlog'[w][Len(dlog'[w])]

\* C12: a request whose command has no cmd_<x> handler runs no handler and
\* leaves exactly one reply of the worker on reply:<c>, with d.success = false
\* and d.msg beginning "Unknown command function 'cmd_<x>'"; the step that
\* dispatches it leaves the worker in its loop, active, with its Monitor as
\* it was, so that later envelopes are dispatched.
C12_UnknownCommand ==
    /\ [](\A w \in Workers : \A m \in 1..Len(dlog[w]) :
            LET e == dlog[w][m]
            IN  e.x \notin HandlerNames =>
                    /\ e.run.calls = <<>> /\ ~e.run.stop /\ ~e.run.info
                    /\ FromWorker(w, e.c) =
                          <<[c |-> e.c, i |-> w,
                             d |-> [success |-> FALSE,
                                    msg |-> <<"Unknown command function", "cmd_", e.x>>]]>>)
    /\ [][\A w \in Workers :
            (Dispatches(w) /\ Dispatched(w).x \notin HandlerNames) =>
                /\ wpc'[w] \in {"direct", "broadcast"}
                /\ active'[w] = active[w] /\ active'[w]
                /\ ending'[w] = "none"
                /\ monitor'[w].alive = monitor[w].alive
                /\ monitor'[w].active]_vars

\* A worker dispatched a command it has no handler for, and after it a ping,
\* which it answered.
C12_Witness ==
    /\ Len(dlog[W1]) = 2
    /\ dlog[W1][1].x = "no_such"
    /\ dlog[W1][2].x = "ping"
    /\ Len(FromWorker(W1, dlog[W1][2].c)) = 1

\* C13: when an existing handler raised before it replied, whatever the type
\* of the exception, the worker has pushed a failure reply for the request
\* whose message is the handler-exception message, not the unknown-command
\* one.
C13_HandlerFailure ==
    \A w \in Workers : \A m \in 1..Len(dlog[w]) :
        LET e == dlog[w][m]
            s == FromWorker(w, e.c)
        IN  (e.x \in HandlerNames /\ e.run.raises # "none" /\ e.run.calls = <<>>) =>
                \E k \in 1..Len(s) :
                    s[k].d = [success |-> FALSE,
                              msg |-> <<"An exception occurred while executing command function",
                                        "cmd_", e.x>>]

\* Worker w has dispatched a stop request.
StopDispatched(w) == \E m \in 1..Len(dlog[w]) : dlog[w][m].x = "stop"

\* The success reply of a stop request that worker w dispatched is among the
\* envelopes pushed.
StopAnswered(w) ==
    \E m \in 1..Len(dlog[w]) :
        /\ dlog[w][m].x = "stop"
        /\ FromWorker(w, dlog[w][m].c) =
              <<[c |-> dlog[w][m].c, i |-> w, d |-> [success |-> TRUE, msg |-> <<"OK">>]]>>

\* The presence key of worker w.
PresenceKey(w) == <<"worker", Site, WorkerType>> \o w

\* C14: the step that dispatches a stop request pushes the success reply and
\* leaves active as it was; active becomes false only in a later step, with the
\* reply already pushed; once the handler has returned active is false; the
\* loop then finishes the pass it is in and starts no other (from the
\* broadcast reads it never returns to the direct reads); a loop that ended on
\* active = false has removed the presence key and the hash field; and after
\* a stop request was dispatched, loop() eventually returns.
C14_Stop ==
    /\ [][\A w \in Workers :
            /\ (Dispatches(w) /\ Dispatched(w).x = "stop") =>
                  /\ active'[w] = active[w]
                  /\ wpc'[w] \in {"direct_stop", "broadcast_stop"}
                  /\ StopAnswered(w)'
            /\ (active[w] /\ ~active'[w]) => StopAnswered(w)
            /\ (~active[w] /\ wpc[w] \in {"broadcast", "broadcast_stop"}) =>
                  wpc'[w] \in {"broadcast", "broadcast_stop", "shutdown"}]_vars
    /\ [](\A w \in Workers :
            /\ (StopDispatched(w) /\ wpc[w] \in {"direct", "broadcast"}) => ~active[w]
            /\ ending[w] = "stop" =>
                  /\ StopDispatched(w) /\ ~active[w]
                  /\ wpc[w] \in {"shutdown", "done", "exited"}
                  /\ PresenceKey(w) \notin strs
                  /\ PresenceKey(w) \notin DOMAIN hash)
    /\ (StopDispatched(W1) ~> wpc[W1] \in {"done", "exited"})

\* A registered worker dispatched a stop request, the client has its success
\* reply, and loop() has returned because active was false.
C14_Witness ==
    /\ StopAnswered(W1)
    /\ ending[W1] = "stop"
    /\ wpc[W1] = "done"
    /\ maintained[W1]
    /\ \E cid \in DOMAIN rpc : Len(rpc[cid].yielded) = 1 /\ rpc[cid].done

\* The last envelope the collection of cid has yielded.
LastYielded(cid) == rpc[cid].yielded[Len(rpc[cid].yielded)]

\* C15: a collection that waits for a number of replies and has yielded a
\* stream terminator (z = -1) has ended, however long the stream was.
C15_StopsAtTerminator ==
    \A cid \in DOMAIN rpc :
        (/\ rpc[cid].wait_count # {}
         /\ rpc[cid].yielded # <<>>
         /\ HasZ(LastYielded(cid))
         /\ LastYielded(cid).z = -1) => rpc[cid].done

\* Every envelope the collection of cid has yielded is single-shot (no z).
SingleShots(cid) == \A n \in 1..Len(rpc[cid].yielded) : ~HasZ(rpc[cid].yielded[n])

\* s is the beginning of t.
IsPrefix(s, t) == Len(s) <= Len(t) /\ SubSeq(t, 1, Len(s)) = s

\* C16: with a wait_count that is a number and single-shot replies, the
\* collection has ended in the very step that yielded the envelope making
\* reply_count equal to wait_count; it never yields more than wait_count
\* envelopes; and once it has ended it pops nothing more: what is pushed to
\* reply:<c> afterwards stays there.
C16_StopsAtWaitCount ==
    /\ [](\A cid \in DOMAIN rpc :
            (rpc[cid].wait_count # {} /\ SingleShots(cid)) =>
                /\ rpc[cid].reply_count = Len(rpc[cid].yielded)
                /\ \A n \in rpc[cid].wait_count : Len(rpc[cid].yielded) <= n
                /\ (rpc[cid].yielded # <<>> /\ Len(rpc[cid].yielded) \in rpc[cid].wait_count)
                      => rpc[cid].done)
    /\ [][\A cid \in DOMAIN rpc :
            rpc[cid].done =>
                /\ rpc'[cid] = rpc[cid]
                /\ IsPrefix(LGet(lists, ReplyKey(cid)), LGet(lists', ReplyKey(cid)))]_vars

\* A multicast that waits for two replies has yielded the replies of both
\* workers and ended on the second.
C16_Witness ==
    \E cid \in DOMAIN rpc :
        /\ rpc[cid].wait_count = {2}
        /\ rpc[cid].done
        /\ Len(rpc[cid].yielded) = 2
        /\ SingleShots(cid)
        /\ LGet(lists, ReplyKey(cid)) = <<>>

\* The collection of cid ends in this step.
Ends(cid) == ~rpc[cid].done /\ rpc'[cid].done

\* C17: a collection ends without its wait_count satisfied only on an empty
\* pop (the one at or after the deadline), never while an envelope waits on
\* reply:<c>; everything it popped until then, possibly nothing, was yielded,
\* in the order pushed; and every collection eventually ends, the envelopes
\* pushed to reply:<c> being finitely many.
C17_Deadline ==
    /\ [][\A cid \in DOMAIN rpc :
            (Ends(cid) /\ rpc'[cid].reply_count \notin rpc[cid].wait_count) =>
                /\ LGet(lists, ReplyKey(cid)) = <<>>
                /\ rpc'[cid].yielded = rpc[cid].yielded
                /\ rpc[cid].yielded = LGet(pushed, cid)]_vars
    /\ [](\A cid \in DOMAIN rpc :
            rpc[cid].done => IsPrefix(rpc[cid].yielded, LGet(pushed, cid)))
    /\ <>[](\A cid \in DOMAIN rpc : rpc[cid].done)

\* The deadline ended one call with no reply (the reply came later and stays
\* on its key) and another, with no wait_count, after the reply it yielded.
C17_Witness ==
    /\ \E cid \in DOMAIN rpc :
          /\ rpc[cid].done /\ rpc[cid].wait_count = {1}
          /\ rpc[cid].yielded = <<>>
          /\ LGet(lists, ReplyKey(cid)) # <<>>
    /\ \E cid \in DOMAIN rpc :
          /\ rpc[cid].done /\ rpc[cid].wait_count = {}
          /\ Len(rpc[cid].yielded) = 1

\* C18: when the lazy sequence a handler replied with raised after k
\* elements, the worker has pushed those k envelopes (z = 0..k-1) and then one
\* failure envelope without z, no terminator and nothing else (the handler
\* went on as after any reply); and a collection waiting for a number of
\* replies that has yielded that failure envelope has ended.
C18_StreamFailure ==
    \A w \in Workers : \A m \in 1..Len(dlog[w]) :
        LET e == dlog[w][m]
        IN  (Streamed(e) /\ e.run.calls[1].raises) =>
                LET k == Len(e.run.calls[1].gen)
                    s == FromWorker(w, e.c)
                IN  /\ Len(s) = k + 1
                    /\ \A n \in 1..k : HasZ(s[n]) /\ s[n].z = n - 1
                    /\ ~HasZ(s[k + 1])
                    /\ s[k + 1].d.success = FALSE
                    /\ (rpc[e.c].wait_count # {} /\ rpc[e.c].yielded = s) => rpc[e.c].done

\* The keys of reply lists that exist.
ReplyKeys == {key \in DOMAIN lists : key[1] = "reply"}

\* C19: every reply envelope pushed for correlation c carries c, carries in i
\* the id of a worker that dispatched the request c, and lies on reply:<c>
\* and on no other key; so a client, which pops reply:<c> of its own request
\* only, yields no envelope of another request.
C19_ReplyIsolation ==
    /\ \A cid \in DOMAIN pushed : \A n \in 1..Len(pushed[cid]) :
          /\ pushed[cid][n].c = cid
          /\ pushed[cid][n].i \in Workers
          /\ DispatchesOf(pushed[cid][n].i, cid) # {}
    /\ \A key \in ReplyKeys : \A n \in 1..Len(lists[key]) :
          /\ IsJson(lists[key][n])
          /\ key = <<"reply">> \o JsonLoads(lists[key][n]).c
          /\ JsonLoads(lists[key][n]).c \in DOMAIN rpc
    /\ \A key \in DOMAIN lists \ ReplyKeys : \A n \in 1..Len(lists[key]) :
          "x" \in DOMAIN JsonLoads(lists[key][n])
    /\ \A cid \in DOMAIN rpc : \A n \in 1..Len(rpc[cid].yielded) :
          rpc[cid].yielded[n].c = cid

\* Two requests are under way: one client has yielded the reply to its own
\* request while the reply to the other request waits on the other key.
C19_Witness ==
    \E a, b \in DOMAIN rpc :
        /\ a # b
        /\ Len(rpc[a].yielded) = 1 /\ rpc[a].yielded[1].c = a
        /\ rpc[b].yielded = <<>> /\ ~rpc[b].done
        /\ Len(LGet(lists, ReplyKey(b))) = 1

\* The list of the Queue object.
Held == LGet(lists, QueueName)

\* The step is a call of Queue.pop that changed something.
Pops == queue' # queue \/ Len(Held') < Len(Held)

\* C20: Queue.pop never raises; when the Redis call fails it sets active to
\* false, returns null and takes nothing; when the popped element is not JSON
\* it returns null and leaves active as it was (the element is gone); when
\* the list is empty it returns null; otherwise it removes exactly the head
\* element and returns it decoded, active as it was.
C20_QueuePop ==
    [][Pops =>
          /\ ~queue'.raised
          /\ IF queue'.failed
             THEN /\ ~queue'.active
                  /\ queue'.returned = <<>>
                  /\ Held' = Held
             ELSE /\ queue'.active = queue.active
                  /\ IF Held = <<>>
                     THEN queue'.returned = <<>> /\ Held' = Held
                     ELSE /\ Held' = Tail(Held)
                          /\ queue'.returned =
                                IF Head(Held) = [text |-> "{not json"]
                                THEN <<>> ELSE <<Head(Held).json>>]_vars

\* The Redis call of an earlier pop failed, so active is false; a later pop
\* found a document at the head, returned it decoded and left the rest.
C20_Witness ==
    /\ ~queue.active
    /\ ~queue.failed
    /\ queue.returned = <<[val |-> "yo"]>>
    /\ Held # <<>>

\* ------------------------------------------------------------------- C21
\* The try block of loop() of worker w has ended.
LoopLeft(w) == ending[w] # "none"

\* loop() of worker w is over: it returned or raised to its caller.
LoopReturned(w) == LoopLeft(w) /\ wpc[w] \in {"done", "exited"}

\* C21: however loop() ends (Worker.active cleared, the Monitor inactive, a
\* keyboard interrupt, an exception of worker_startup, of worker_tick or of
\* the message intake), presence removal and worker_shutdown have each run
\* exactly once when it is over, the removal alone while worker_shutdown is
\* still to come and neither before the loop is left; loop() raises to its
\* caller exactly when an exception other than a keyboard interrupt ended it,
\* and only once both have run.
C21_TeardownOnce ==
    \A w \in Workers :
        /\ ~LoopLeft(w) => teardown[w] = [removals |-> 0, shutdowns |-> 0, raised |-> FALSE]
        /\ LoopLeft(w) /\ wpc[w] = "shutdown" =>
               teardown[w] = [removals |-> 1, shutdowns |-> 0, raised |-> FALSE]
        /\ LoopReturned(w) =>
               /\ teardown[w].removals = 1
               /\ teardown[w].shutdowns = 1
               /\ ending[w] \in {"stop", "interrupt"} => ~teardown[w].raised
               /\ ending[w] = "raise" => teardown[w].raised
        /\ LoopLeft(w) => wpc[w] \in {"shutdown", "done", "exited"}
        /\ ending[w] \in {"none", "stop", "interrupt", "raise"}

\* loop() has returned after a keyboard interrupt, which it swallowed, with
\* both clauses of the teardown run once.
C21_Witness ==
    /\ LoopReturned(W1)
    /\ ending[W1] = "interrupt"
    /\ teardown[W1] = [removals |-> 1, shutdowns |-> 1, raised |-> FALSE]

\* ------------------------------------------------------------------- C22
\* C22: a worker that has dispatched an envelope has registered before: the
\* maintenance block, which writes the hash field and the presence key, has
\* run in its loop.
C22_RegisteredBeforeDispatch ==
    \A w \in Workers : dlog[w] # <<>> => maintained[w]

\* ------------------------------------------------------------------- C23
\* C23: a worker whose loop goes on (Worker.active and Monitor.active both
\* true) has a living Monitor thread, also after a blocking pop of that
\* thread raised a transport error: the thread goes on delivering, or the
\* Monitor becomes inactive and the loop ends.
C23_MonitorRecovers ==
    \A w \in Workers :
        (~LoopLeft(w) /\ Running(w) /\ active[w] /\ monitor[w].active)
            => monitor[w].alive

\* ------------------------------------------------------------------- C24
\* The workers whose terminal envelope (no z, or z = -1) is among ys.
TerminalSenders(ys) == {ys[k].i : k \in {j \in 1..Len(ys) : IsTerminal(ys[j])}}

\* C24: a collection whose wait_count is a number n > 1 ends in a step that
\* yields an envelope (that is, before its deadline) only when the envelopes
\* it has yielded include the terminal envelopes of n distinct workers.
C24_WaitsForResponders ==
    [][\A cid \in DOMAIN rpc :
          (/\ Ends(cid)
           /\ \E n \in rpc[cid].wait_count : n > 1
           /\ Len(rpc'[cid].yielded) > Len(rpc[cid].yielded))
              => \A n \in rpc[cid].wait_count :
                     Cardinality(TerminalSenders(rpc'[cid].yielded)) = n]_vars

\* ------------------------------------------------------------------- C25
\* The main thread of worker w takes an envelope from output_queue.
Takes(w) ==
    /\ monitor[w].output_queue # <<>>
    /\ monitor'[w].output_queue = Tail(monitor[w].output_queue)

\* C25: the step in which a worker hands a decoded envelope to
\* process_message never ends its loop, and when the envelope carries a
\* correlation id, a reply envelope is pushed to reply:<c> in that step; this
\* for envelopes without x or without c as for complete ones.
C25_ProcessMessageNeverRaises ==
    [][\A w \in Workers :
          Takes(w) =>
              LET message == Head(monitor[w].output_queue)
              IN  /\ ending'[w] = ending[w]
                  /\ wpc'[w] \in {"direct", "direct_stop"}
                  /\ "c" \in DOMAIN message =>
                         Len(LGet(pushed', message.c)) > Len(LGet(pushed, message.c))]_vars

\* ------------------------------------------------------------------- C26
\* The collection of cid yields an envelope in this step.
Yields(cid) == Len(rpc'[cid].yielded) > Len(rpc[cid].yielded)

\* C26: a turn of the collecting loop that pops an envelope with z >= 0 does
\* not end the collection, whatever reply_count and the clock are; and a turn
\* that pops any envelope ends the collection only by reply_count reaching
\* wait_count, never by the deadline, which is looked at after an empty pop
\* alone.
C26_NoCheckOnStreamElement ==
    [][\A cid \in DOMAIN rpc :
          Yields(cid) =>
              LET env == rpc'[cid].yielded[Len(rpc'[cid].yielded)]
              IN  /\ (HasZ(env) /\ env.z >= 0) => ~rpc'[cid].done
                  /\ rpc'[cid].done => rpc'[cid].reply_count \in rpc[cid].wait_count
                  /\ rpc'[cid].reply_count = rpc[cid].reply_count + 1]_vars

\* A collection has yielded an element of a stream which made reply_count
\* equal to wait_count, and goes on.
C26_Witness ==
    \E cid \in DOMAIN rpc :
        /\ ~rpc[cid].done
        /\ rpc[cid].yielded # <<>>
        /\ HasZ(LastYielded(cid))
        /\ LastYielded(cid).z >= 0
        /\ rpc[cid].reply_count \in rpc[cid].wait_count

\* ------------------------------------------------------------------- C27
\* C27: an envelope waiting on the group key of a worker whose threads run is
\* eventually popped from it, also while envelopes keep arriving on the
\* worker's direct key.
C27_GroupKeyServed ==
    (LGet(lists, GroupKey(Site, WorkerType)) # <<>>)
        ~> (LGet(lists, GroupKey(Site, WorkerType)) = <<>>)

\* ------------------------------------------------------------------- C28
\* The keys callers push request envelopes to.
RequestKeys == {key \in DOMAIN lists : key[1] \in {"direct", "group"}}

\* Where the request envelope with correlation c is: on its key, on the
\* output_queue of a worker, or dispatched.
OnKey(e) ==
    \E n \in 1..Len(LGet(lists, e.key)) : JsonLoads(lists[e.key][n]).c = e.c

Queued(e) ==
    \E w \in Workers : \E n \in 1..Len(monitor[w].output_queue) :
        monitor[w].output_queue[n].c = e.c

Consumed(e) == \E w \in Workers : DispatchesOf(w, e.c) # {}

\* It is nowhere: it disappeared with its key.
Lost(e) == ~OnKey(e) /\ ~Queued(e) /\ ~Consumed(e)

SentEnvelopes == {sent[n] : n \in 1..Len(sent)}

\* C28: a request key that holds envelopes has the time to live command_ttl,
\* set again by every push; a request envelope disappears only with its whole
\* key, when that time has run out, and in no other way; and an envelope that
\* has disappeared is never dispatched, by a worker that starts later either.
C28_RequestExpires ==
    /\ [](\A key \in RequestKeys : key \in DOMAIN ttl /\ ttl[key] = command_ttl)
    /\ [][\A e \in SentEnvelopes :
            /\ (~Lost(e) /\ Lost(e)') =>
                   /\ e.key \in DOMAIN ttl
                   /\ e.key \notin DOMAIN lists'
                   /\ UNCHANGED <<monitor, dlog>>
            /\ Lost(e) => Lost(e)']_vars

\* A request envelope has disappeared with its key, and the worker, started
\* and in its loop with its maintenance done, has dispatched nothing.
C28_Witness ==
    /\ \E e \in SentEnvelopes : Lost(e)
    /\ wpc[W1] = "direct"
    /\ maintained[W1]
    /\ dlog[W1] = <<>>

\* ------------------------------------------------------------------- C29
\* The payload of the last Client.reply call process_message led to: the
\* handler's last reply, or the automatic one, which is single-shot.
LastReplied(run) ==
    IF run.calls = <<>> THEN Success(OK) ELSE run.calls[Len(run.calls)]

\* The correlation ids of the calls of the specification.
CallCids == {<<"c", ToString(n)>> : n \in 1..MaxCalls}

\* C29: in the step in which process_message has replied, reply:<c>, when it
\* holds elements, has the time to live command_ttl after a single-shot reply
\* or a stream that failed, and the larger of command_ttl * n and 300 after a
\* stream of n elements (300 up to n = 30, command_ttl * n beyond); a reply
\* key that holds elements always has a time to live, and is eventually
\* empty: consumed or deleted.
C29_ReplyTtl ==
    /\ [][\A w \in Workers :
            Len(dlog'[w]) > Len(dlog[w]) =>
                LET e == dlog'[w][Len(dlog'[w])]
                    data == LastReplied(e.run)
                    n == Len(data.gen)
                IN  ReplyKey(e.c) \in DOMAIN lists' =>
                        /\ ReplyKey(e.c) \in DOMAIN ttl'
                        /\ ttl'[ReplyKey(e.c)] =
                              IF IsGenerator(data) /\ ~data.raises
                              THEN (IF n <= 30 THEN 300 ELSE 10 * n)
                              ELSE 10]_vars
    /\ [](\A n \in 0..MaxLongStream :
            ReplyTtl(Generator([k \in 1..n |-> [elem |-> k]], FALSE)) =
                IF n <= 30 THEN 300 ELSE 10 * n)
    /\ [](\A key \in ReplyKeys : key \in DOMAIN ttl)
    /\ \A cid \in CallCids :
          (ReplyKey(cid) \in DOMAIN lists) ~> (ReplyKey(cid) \notin DOMAIN lists)

\* A stream of one element and its terminator lie on the reply key, which has
\* the time to live 300.
C29_Witness ==
    \E cid \in DOMAIN rpc :
        /\ Len(LGet(lists, ReplyKey(cid))) = 2
        /\ HasZ(JsonLoads(lists[ReplyKey(cid)][2]))
        /\ JsonLoads(lists[ReplyKey(cid)][2]).z = -1
        /\ ttl[ReplyKey(cid)] = StreamTtlFloor

\* ------------------------------------------------------------------- C30
\* C30: a get_message call that met a transport error has made at most three
\* reconnects, has read again after each reconnect that succeeded, and has
\* returned (a message, or null when every attempt failed), never raised.
C30_GetMessageReturns ==
    \A w \in Workers :
        /\ conn[w].reconnects <= 3
        /\ conn[w].result # "raised"
        /\ conn[w].result = "read" => conn[w].reads = conn[w].reconnects + 1

\* ------------------------------------------------------------------- C31
\* C31: when loop() ends, worker_shutdown runs before the presence records
\* are removed: the removal has never run more often than the hook, and a
\* worker that had registered is still registered (hash field and presence
\* key) while its hook is yet to return.
C31_ShutdownBeforeRemoval ==
    \A w \in Workers :
        /\ teardown[w].removals <= teardown[w].shutdowns
        /\ (wpc[w] = "shutdown" /\ maintained[w]) =>
               /\ PresenceKey(w) \in strs
               /\ PresenceKey(w) \in DOMAIN hash

\* ------------------------------------------------------------------- C32
\* C32: when clear() returns, the list is empty, whatever its length was: a
\* step after which the Queue's last call returned the answer of its trim,
\* and which did not push, leaves no element on the key.
C32_ClearEmpties ==
    [][(queue'.returned = <<[ok |-> TRUE]>> /\ Len(Held') <= Len(Held))
          => Held' = <<>>]_vars

\* ------------------------------------------------------------------- C33
\* C33: a worker dispatches every envelope its Monitor took from a key, and
\* each once: it dispatches no correlation id twice, and once its loop has
\* ended its Monitor's buffer holds no envelope, neither one left there when
\* the loop ended nor one taken from a key afterwards.
C33_NothingLeftInMonitor ==
    \A w \in Workers :
        /\ \A cid \in DOMAIN rpc : Cardinality(DispatchesOf(w, cid)) <= 1
        /\ LoopLeft(w) => monitor[w].output_queue = <<>>

====
